---- MODULE Spec2Model ----
(***************************************************************************)
(* Model of LLMWrapper.to_singlestore (src/sqlglot/llm_wrapper.py): one    *)
(* conversion request walking through parse, classify and then either the  *)
(* stored-procedure path (decompose, convert each statement, reassemble)   *)
(* or the single-statement path (transpile, validate).                     *)
(*                                                                         *)
(* Text is a sequence of one-character strings.  The collaborators         *)
(* (parse_one, transpile, ollama.chat) are nondeterministic: every call    *)
(* either raises or returns a value drawn from a bounded set.  The         *)
(* variable calls is a history of the collaborator invocations.            *)
(***************************************************************************)
EXTENDS Naturals, Sequences, FiniteSets, TLC

VARIABLES
    pc,          \* position of the request inside to_singlestore
    sql,         \* argument sql
    dialect,     \* argument dialect
    model,       \* self.model
    expression,  \* local expression (result of parse_one)
    kind,        \* local kind
    statements,  \* local statements of _transpile_procedure
    idx,         \* position of the for loop over statements
    converted,   \* local converted of _transpile_procedure
    transpiled,  \* local transpiled of to_singlestore
    outcome,     \* what the call did: still running, returned text, raised
    calls,       \* history: the collaborator calls made so far, in order
    helper,      \* one call of procedure.transpile_procedure (its locals)
    reqs         \* the requests running concurrently on one wrapper

vars == <<pc, sql, dialect, model, expression, kind, statements, idx,
          converted, transpiled, outcome, calls, helper, reqs>>

-----------------------------------------------------------------------------
(* Bounds of the model *)

\* longest response of the local model to the extraction request of
\* procedure.py
MaxRawLen == 4

\* most lines in one assistant response to the breakdown request
MaxLines == 2

\* longest assistant response to a reassembly or double-check request
MaxRespLen == 2

-----------------------------------------------------------------------------
(* Characters and text helpers (the Python str methods the code uses) *)

SP == " "

NL == "\n"

SEMI == ";"

Whitespace == {SP, NL}

StringsUpTo(chars, n) == UNION {[1..k -> chars] : k \in 0..n}

RECURSIVE LStrip(_)
LStrip(s) ==
    IF s # <<>> /\ Head(s) \in Whitespace THEN LStrip(Tail(s)) ELSE s

RECURSIVE RStrip(_)
RStrip(s) ==
    IF s # <<>> /\ s[Len(s)] \in Whitespace
    THEN RStrip(SubSeq(s, 1, Len(s) - 1))
    ELSE s

\* str.strip(): removes all leading and trailing whitespace
Strip(s) == RStrip(LStrip(s))

\* str.rstrip(c): removes every trailing occurrence of c
RECURSIVE RStripChar(_, _)
RStripChar(s, c) ==
    IF s # <<>> /\ s[Len(s)] = c
    THEN RStripChar(SubSeq(s, 1, Len(s) - 1), c)
    ELSE s

\* str.splitlines(): split at line breaks, no trailing empty line
RECURSIVE SplitLines(_)
SplitLines(s) ==
    IF s = <<>> THEN <<>>
    ELSE IF \E i \in 1..Len(s) : s[i] = NL
         THEN LET i == CHOOSE j \in 1..Len(s) :
                          s[j] = NL /\ \A k \in 1..(j - 1) : s[k] # NL
              IN  <<SubSeq(s, 1, i - 1)>> \o SplitLines(SubSeq(s, i + 1, Len(s)))
         ELSE <<s>>

\* sep.join(parts)
RECURSIVE Join(_, _)
Join(sep, parts) ==
    IF parts = <<>> THEN <<>>
    ELSE IF Len(parts) = 1 THEN parts[1]
         ELSE parts[1] \o sep \o Join(sep, Tail(parts))

LowerLetters == <<"a","b","c","d","e","f","g","h","i","j","k","l","m",
                  "n","o","p","q","r","s","t","u","v","w","x","y","z">>

UpperLetters == <<"A","B","C","D","E","F","G","H","I","J","K","L","M",
                  "N","O","P","Q","R","S","T","U","V","W","X","Y","Z">>

UpperChar(c) ==
    IF \E i \in 1..Len(LowerLetters) : LowerLetters[i] = c
    THEN UpperLetters[CHOOSE i \in 1..Len(LowerLetters) : LowerLetters[i] = c]
    ELSE c

\* str.upper()
Upper(s) == [i \in 1..Len(s) |-> UpperChar(s[i])]

-----------------------------------------------------------------------------
(* Inputs and collaborator behaviour *)

SqlTexts == {<<>>, <<"s">>}

Dialects == {"tsql", "mysql"}

DefaultModel == "llama3"

\* kind argument of a parsed CREATE statement
CreateKinds ==
    { <<"P","R","O","C","E","D","U","R","E">>,
      <<"P","r","o","c","e","d","u","r","e">>,
      <<"T","A","B","L","E">>,
      <<>> }

\* parsed expressions: the class of the root node and its kind argument
\* (hasKind = FALSE stands for kind None)
Expressions ==
    { [cls |-> "Create", hasKind |-> TRUE, kind |-> k] : k \in CreateKinds }
    \cup { [cls |-> c, hasKind |-> FALSE, kind |-> <<>>] :
             c \in {"Create", "Insert", "Select", "Update"} }

\* the classes an expression class derives from (itself included)
ClassBases(cls) ==
    CASE cls = "Create" -> {"Create", "DDL", "Expression"}
      [] cls = "Insert" -> {"Insert", "DDL", "DML", "Expression"}
      [] cls = "Update" -> {"Update", "DML", "Expression"}
      [] OTHER          -> {cls, "Expression"}

IsInstance(e, base) == base \in ClassBases(e.cls)

\* parse_one(sql, read=dialect): raises on text holding no statement, and on
\* any text it cannot parse
ParseOne(s) ==
    { [ok |-> FALSE, expr |-> [cls |-> "None", hasKind |-> FALSE, kind |-> <<>>],
       err |-> "ParseError"] }
    \cup (IF s = <<>> THEN {}
          ELSE { [ok |-> TRUE, expr |-> e, err |-> "None"] : e \in Expressions })

TranspileOutputs == {<<>>, <<"b">>}

\* transpile(text, read=dialect, write="singlestore")[0]: raises or gives text
Transpile(text, read) ==
    { [ok |-> FALSE, out |-> <<>>, err |-> "ParseError"] }
    \cup { [ok |-> TRUE, out |-> o, err |-> "None"] : o \in TranspileOutputs }

AssistantErrors == {"ConnectionError", "ResponseError"}

\* lines an assistant may put into its answer to the breakdown request
ResponseLines ==
    { <<>>, <<SP>>, <<"a">>, <<"a", SEMI>>, <<"a", SEMI, SEMI>>,
      <<SP, "a", SEMI, SP>>, <<SEMI>> }

BreakdownResponses ==
    { Join(<<NL>>, ls) : ls \in UNION {[1..k -> ResponseLines] : k \in 0..MaxLines} }

OtherResponses == StringsUpTo({"c", SP, NL}, MaxRespLen)

\* ollama.chat(model=..., messages=...)["message"]["content"]: raises or
\* gives the content of the answer
Chat(responses) ==
    { [ok |-> FALSE, out |-> <<>>, err |-> e] : e \in AssistantErrors }
    \cup { [ok |-> TRUE, out |-> r, err |-> "None"] : r \in responses }

ChatCall(stage, system, prompt, r) ==
    [fn |-> "chat", stage |-> stage,
     arg |-> [model |-> model, system |-> system, user |-> prompt],
     ok |-> r.ok, out |-> r.out, err |-> r.err]

TranspileCall(stage, text, r) ==
    [fn |-> "transpile", stage |-> stage,
     arg |-> [text |-> text, read |-> dialect, write |-> "singlestore"],
     ok |-> r.ok, out |-> r.out, err |-> r.err]

Running == [status |-> "running", text |-> <<>>, err |-> "None"]

Returned(text) == [status |-> "returned", text |-> text, err |-> "None"]

Raised(err) == [status |-> "raised", text |-> <<>>, err |-> err]

NoExpression == [cls |-> "None", hasKind |-> FALSE, kind |-> <<>>]

-----------------------------------------------------------------------------
(* LLMWrapper *)

\* expression.kind or ""
KindOrEmpty(e) == IF e.hasKind THEN e.kind ELSE <<>>

PROCEDURE == <<"P","R","O","C","E","D","U","R","E">>

\* variant of QueryType: the DDL test made before the Insert test
QueryTypeDDLFirst(e) ==
    IF IsInstance(e, "Create") /\ Upper(KindOrEmpty(e)) = PROCEDURE
    THEN "stored procedure"
    ELSE IF IsInstance(e, "DDL") THEN "DDL query"
    ELSE IF IsInstance(e, "Insert") THEN "insert query"
    ELSE "query"

QueryType(e) ==
    IF IsInstance(e, "Create") /\ Upper(KindOrEmpty(e)) = PROCEDURE
    THEN "stored procedure"
    ELSE IF IsInstance(e, "Insert") THEN "insert query"
    ELSE IF IsInstance(e, "DDL") THEN "DDL query"
    ELSE "query"

Prompt(k, s, d) ==
    IF k = "stored procedure"
    THEN [template |-> "STORED_PROCEDURE_PROMPT", procedure |-> s]
    ELSE [template |-> "Double check", kind |-> k, sql |-> s]

BreakdownPrompt(procedure) ==
    [template |-> "BREAKDOWN_PROMPT", procedure |-> procedure]

ReassemblePrompt(original, conv) ==
    [template |-> "REASSEMBLE_PROMPT", procedure |-> original, converted |-> conv]

\* variant of DecomposeLines: lines that do not end in a terminator are
\* dropped as well
DecomposeLinesTerminatedOnly(content) ==
    LET kept == SelectSeq(SplitLines(content),
                    LAMBDA line : Strip(line) # <<>>
                                  /\ Strip(line)[Len(Strip(line))] = SEMI)
    IN  [i \in 1..Len(kept) |-> Strip(kept[i])]

\* [line.strip() for line in content.splitlines() if line.strip()]
DecomposeLines(content) ==
    LET kept == SelectSeq(SplitLines(content), LAMBDA line : Strip(line) # <<>>)
    IN  [i \in 1..Len(kept) |-> Strip(kept[i])]

\* text = stmt.rstrip(";")
StripTerminator(stmt) == RStripChar(stmt, SEMI)

\* variant of AppendConverted: no terminator is put after an empty text
AppendConvertedSkipEmpty(conv, text) ==
    IF text = <<>> THEN Append(conv, text) ELSE Append(conv, text \o <<SEMI>>)

\* variant of AppendConverted: results collected newest first
PrependConverted(conv, text) == <<text \o <<SEMI>>>> \o conv

\* converted.append(text + ";")
AppendConverted(conv, text) == Append(conv, text \o <<SEMI>>)

\* variant of Joined: every statement is followed by a line break
JoinedLineEnded(conv) == Join(<<NL>>, conv) \o <<NL>>

\* "\n".join(converted)
Joined(conv) == Join(<<NL>>, conv)

\* no call of transpile_procedure is under way
NoHelper == [pc |-> "none", statements |-> <<>>, idx |-> 1, converted |-> <<>>,
             outcome |-> Running, calls |-> <<>>]

Init ==
    /\ pc = "parse"
    /\ sql \in SqlTexts
    /\ dialect \in Dialects
    /\ model = DefaultModel
    /\ expression = NoExpression
    /\ kind = "None"
    /\ statements = <<>>
    /\ idx = 1
    /\ converted = <<>>
    /\ transpiled = <<>>
    /\ outcome = Running
    /\ calls = <<>>
    /\ helper = NoHelper
    /\ reqs = <<>>

\* variant of Parse: a parse failure is ignored and the text is handled as a
\* plain query
ParseLenient ==
    /\ pc = "parse"
    /\ UNCHANGED <<helper, reqs>>
    /\ \E r \in ParseOne(sql) :
         IF r.ok
         THEN /\ expression' = r.expr
              /\ pc' = "classify"
              /\ kind' = kind
         ELSE /\ expression' = expression
              /\ pc' = "transpile"
              /\ kind' = "query"
    /\ UNCHANGED <<sql, dialect, model, statements, idx, converted,
                   transpiled, outcome, calls>>

\* to_singlestore: expression = parse_one(sql, read=dialect), any exception
\* becoming ValueError("Please provide sql.")
Parse ==
    /\ pc = "parse"
    /\ UNCHANGED <<helper, reqs>>
    /\ \E r \in ParseOne(sql) :
         IF r.ok
         THEN /\ expression' = r.expr
              /\ pc' = "classify"
              /\ outcome' = outcome
         ELSE /\ expression' = expression
              /\ pc' = "fail"
              /\ outcome' = Raised("ValueError: Please provide sql.")
    /\ UNCHANGED <<sql, dialect, model, kind, statements, idx, converted,
                   transpiled, calls>>

\* to_singlestore: kind = self._query_type(expression) and the branch on it
Classify ==
    /\ pc = "classify"
    /\ UNCHANGED <<helper, reqs>>
    /\ kind' = QueryType(expression)
    /\ pc' = IF kind' = "stored procedure" THEN "decompose" ELSE "transpile"
    /\ UNCHANGED <<sql, dialect, model, expression, statements, idx, converted,
                   transpiled, outcome, calls>>

\* variant of Decompose: a failed breakdown call is taken as an empty batch
DecomposeBestEffort ==
    /\ pc = "decompose"
    /\ UNCHANGED <<helper, reqs>>
    /\ \E r \in Chat(BreakdownResponses) :
         /\ calls' = Append(calls, ChatCall("decompose",
                        "You extract SQL statements.", BreakdownPrompt(sql), r))
         /\ statements' = IF r.ok THEN DecomposeLines(r.out) ELSE <<>>
    /\ pc' = "convert"
    /\ idx' = 1
    /\ converted' = <<>>
    /\ UNCHANGED <<sql, dialect, model, expression, kind, transpiled, outcome>>

\* _transpile_procedure: statements = self._decompose_procedure(sql);
\* converted = []
Decompose ==
    /\ pc = "decompose"
    /\ UNCHANGED <<helper, reqs>>
    /\ \E r \in Chat(BreakdownResponses) :
         /\ calls' = Append(calls, ChatCall("decompose",
                        "You extract SQL statements.", BreakdownPrompt(sql), r))
         /\ IF r.ok
            THEN /\ statements' = DecomposeLines(r.out)
                 /\ pc' = "convert"
                 /\ outcome' = outcome
            ELSE /\ statements' = statements
                 /\ pc' = "fail"
                 /\ outcome' = Raised(r.err)
    /\ idx' = 1
    /\ converted' = <<>>
    /\ UNCHANGED <<sql, dialect, model, expression, kind, transpiled>>

\* variant of ConvertEach: a statement the transpiler rejects is tried a
\* second time with its terminators left on
ConvertEachRetry ==
    /\ pc = "convert"
    /\ UNCHANGED <<helper, reqs>>
    /\ idx <= Len(statements)
    /\ LET text == StripTerminator(statements[idx])
       IN  \E r \in Transpile(text, dialect) :
             IF r.ok
             THEN /\ calls' = Append(calls, TranspileCall("convert", text, r))
                  /\ converted' = AppendConverted(converted, r.out)
             ELSE \E r2 \in Transpile(statements[idx], dialect) :
                    /\ calls' = calls \o <<TranspileCall("convert", text, r),
                                           TranspileCall("convert", statements[idx], r2)>>
                    /\ converted' = AppendConverted(converted,
                                        IF r2.ok THEN r2.out ELSE text)
    /\ idx' = idx + 1
    /\ UNCHANGED <<pc, sql, dialect, model, expression, kind, statements,
                   transpiled, outcome>>

\* _transpile_procedure: one round of the loop over statements
ConvertEach ==
    /\ pc = "convert"
    /\ UNCHANGED <<helper, reqs>>
    /\ idx <= Len(statements)
    /\ LET text == StripTerminator(statements[idx])
       IN  \E r \in Transpile(text, dialect) :
             /\ calls' = Append(calls, TranspileCall("convert", text, r))
             /\ converted' = AppendConverted(converted, IF r.ok THEN r.out ELSE text)
    /\ idx' = idx + 1
    /\ UNCHANGED <<pc, sql, dialect, model, expression, kind, statements,
                   transpiled, outcome>>

\* variant of Reassemble: when the reassembly call fails the joined
\* statements are returned
ReassembleFallback ==
    /\ pc = "convert"
    /\ UNCHANGED <<helper, reqs>>
    /\ idx > Len(statements)
    /\ \E r \in Chat(OtherResponses) :
         /\ calls' = Append(calls, ChatCall("reassemble",
                        "You translate SQL between dialects.",
                        ReassemblePrompt(sql, Joined(converted)), r))
         /\ outcome' = Returned(IF r.ok THEN Strip(r.out) ELSE Joined(converted))
    /\ pc' = "done"
    /\ UNCHANGED <<sql, dialect, model, expression, kind, statements, idx,
                   converted, transpiled>>

\* _transpile_procedure: joined = "\n".join(converted);
\* return self._reassemble_procedure(sql, joined)
Reassemble ==
    /\ pc = "convert"
    /\ UNCHANGED <<helper, reqs>>
    /\ idx > Len(statements)
    /\ \E r \in Chat(OtherResponses) :
         /\ calls' = Append(calls, ChatCall("reassemble",
                        "You translate SQL between dialects.",
                        ReassemblePrompt(sql, Joined(converted)), r))
         /\ IF r.ok
            THEN /\ pc' = "done"
                 /\ outcome' = Returned(Strip(r.out))
            ELSE /\ pc' = "fail"
                 /\ outcome' = Raised(r.err)
    /\ UNCHANGED <<sql, dialect, model, expression, kind, statements, idx,
                   converted, transpiled>>

\* variant of TranspileStatement: a statement the transpiler rejects is
\* passed on unchanged, as inside a procedure
TranspileStatementBestEffort ==
    /\ pc = "transpile"
    /\ UNCHANGED <<helper, reqs>>
    /\ \E r \in Transpile(sql, dialect) :
         /\ calls' = Append(calls, TranspileCall("transpile", sql, r))
         /\ transpiled' = IF r.ok THEN r.out ELSE sql
    /\ pc' = "validate"
    /\ UNCHANGED <<sql, dialect, model, expression, kind, statements, idx,
                   converted, outcome>>

\* to_singlestore: transpiled = transpile(sql, read=dialect,
\* write="singlestore")[0]
TranspileStatement ==
    /\ pc = "transpile"
    /\ UNCHANGED <<helper, reqs>>
    /\ \E r \in Transpile(sql, dialect) :
         /\ calls' = Append(calls, TranspileCall("transpile", sql, r))
         /\ IF r.ok
            THEN /\ transpiled' = r.out
                 /\ pc' = "validate"
                 /\ outcome' = outcome
            ELSE /\ transpiled' = transpiled
                 /\ pc' = "fail"
                 /\ outcome' = Raised(r.err)
    /\ UNCHANGED <<sql, dialect, model, expression, kind, statements, idx,
                   converted>>

\* variant of Validate: a failed double-check call is made a second time
ValidateRetry ==
    /\ pc = "validate"
    /\ UNCHANGED <<helper, reqs>>
    /\ \E r \in Chat(OtherResponses) :
         IF r.ok
         THEN /\ calls' = Append(calls, ChatCall("validate",
                             "You translate SQL between dialects.",
                             Prompt(kind, transpiled, "None"), r))
              /\ pc' = "done"
              /\ outcome' = Returned(Strip(r.out))
         ELSE \E r2 \in Chat(OtherResponses) :
                /\ calls' = calls \o
                       <<ChatCall("validate", "You translate SQL between dialects.",
                                  Prompt(kind, transpiled, "None"), r),
                         ChatCall("validate", "You translate SQL between dialects.",
                                  Prompt(kind, transpiled, "None"), r2)>>
                /\ IF r2.ok
                   THEN /\ pc' = "done"
                        /\ outcome' = Returned(Strip(r2.out))
                   ELSE /\ pc' = "fail"
                        /\ outcome' = Raised(r2.err)
    /\ UNCHANGED <<sql, dialect, model, expression, kind, statements, idx,
                   converted, transpiled>>

\* variant of Validate: the transpiled statement is returned once the
\* assistant has answered
ValidateReturnTranspiled ==
    /\ pc = "validate"
    /\ UNCHANGED <<helper, reqs>>
    /\ \E r \in Chat(OtherResponses) :
         /\ calls' = Append(calls, ChatCall("validate",
                        "You translate SQL between dialects.",
                        Prompt(kind, transpiled, "None"), r))
         /\ IF r.ok
            THEN /\ pc' = "done"
                 /\ outcome' = Returned(transpiled)
            ELSE /\ pc' = "fail"
                 /\ outcome' = Raised(r.err)
    /\ UNCHANGED <<sql, dialect, model, expression, kind, statements, idx,
                   converted, transpiled>>

\* variant of Validate: the answer is returned without .strip()
ValidateUnstripped ==
    /\ pc = "validate"
    /\ UNCHANGED <<helper, reqs>>
    /\ \E r \in Chat(OtherResponses) :
         /\ calls' = Append(calls, ChatCall("validate",
                        "You translate SQL between dialects.",
                        Prompt(kind, transpiled, "None"), r))
         /\ IF r.ok
            THEN /\ pc' = "done"
                 /\ outcome' = Returned(r.out)
            ELSE /\ pc' = "fail"
                 /\ outcome' = Raised(r.err)
    /\ UNCHANGED <<sql, dialect, model, expression, kind, statements, idx,
                   converted, transpiled>>

\* to_singlestore: the double-check prompt, the chat call and the return
Validate ==
    /\ pc = "validate"
    /\ UNCHANGED <<helper, reqs>>
    /\ \E r \in Chat(OtherResponses) :
         /\ calls' = Append(calls, ChatCall("validate",
                        "You translate SQL between dialects.",
                        Prompt(kind, transpiled, "None"), r))
         /\ IF r.ok
            THEN /\ pc' = "done"
                 /\ outcome' = Returned(Strip(r.out))
            ELSE /\ pc' = "fail"
                 /\ outcome' = Raised(r.err)
    /\ UNCHANGED <<sql, dialect, model, expression, kind, statements, idx,
                   converted, transpiled>>

\* ollama.chat is called without a timeout (lines 79, 90, 127): when the
\* assistant never answers, the call never returns and the request stays in
\* the stage that made it
DecomposeNeverAnswered ==
    /\ pc = "decompose"
    /\ UNCHANGED <<helper, reqs>>
    /\ pc' = "decompose_blocked"
    /\ UNCHANGED <<sql, dialect, model, expression, kind, statements, idx,
                   converted, transpiled, outcome, calls>>

ReassembleNeverAnswered ==
    /\ pc = "convert"
    /\ UNCHANGED <<helper, reqs>>
    /\ idx > Len(statements)
    /\ pc' = "reassemble_blocked"
    /\ UNCHANGED <<sql, dialect, model, expression, kind, statements, idx,
                   converted, transpiled, outcome, calls>>

ValidateNeverAnswered ==
    /\ pc = "validate"
    /\ UNCHANGED <<helper, reqs>>
    /\ pc' = "validate_blocked"
    /\ UNCHANGED <<sql, dialect, model, expression, kind, statements, idx,
                   converted, transpiled, outcome, calls>>

Next ==
    \/ Parse
    \/ Classify
    \/ Decompose
    \/ ConvertEach
    \/ Reassemble
    \/ TranspileStatement
    \/ Validate
    \/ DecomposeNeverAnswered
    \/ ReassembleNeverAnswered
    \/ ValidateNeverAnswered

Spec == Init /\ [][Next]_vars

-----------------------------------------------------------------------------
(* procedure.py: the standalone helper transpile_procedure *)

\* no to_singlestore request is under way
MainIdle ==
    /\ pc = "idle"
    /\ sql = <<>>
    /\ dialect = "tsql"
    /\ model = DefaultModel
    /\ expression = NoExpression
    /\ kind = "None"
    /\ statements = <<>>
    /\ idx = 1
    /\ converted = <<>>
    /\ transpiled = <<>>
    /\ outcome = Running
    /\ calls = <<>>

\* str.split(sep): the pieces between the separators, empty ones included
RECURSIVE Split(_, _)
Split(s, sep) ==
    IF \E i \in 1..Len(s) : s[i] = sep
    THEN LET i == CHOOSE j \in 1..Len(s) :
                     s[j] = sep /\ \A k \in 1..(j - 1) : s[k] # sep
         IN  <<SubSeq(s, 1, i - 1)>> \o Split(SubSeq(s, i + 1, Len(s)), sep)
    ELSE <<s>>

LlmErrors == {"ConnectionError", "Timeout", "HTTPError"}

RawResponses == StringsUpTo({"a", SEMI, SP}, MaxRawLen)

\* _call_llm: requests.post(..., timeout=60), raise_for_status, and the
\* "response" field of the answer
CallLlm ==
    { [ok |-> FALSE, out |-> <<>>, err |-> e] : e \in LlmErrors }
    \cup { [ok |-> TRUE, out |-> r, err |-> "None"] : r \in RawResponses }

\* [s.strip() for s in raw.split(";") if s.strip()]
ExtractTranspilableSql(raw) ==
    LET kept == SelectSeq(Split(raw, SEMI), LAMBDA piece : Strip(piece) # <<>>)
    IN  [i \in 1..Len(kept) |-> Strip(kept[i])]

DelimiterOpen == <<"D","E","L","I","M","I","T","E","R",SP,"/","/",NL>>

DelimiterClose == <<NL,"/","/",NL,"D","E","L","I","M","I","T","E","R",SP,SEMI>>

\* body = ";\n".join(converted) + ";" and the DELIMITER frame around it
ProcedureBody(conv) == DelimiterOpen \o Join(<<SEMI, NL>>, conv) \o <<SEMI>> \o DelimiterClose

HelperInit ==
    /\ MainIdle
    /\ reqs = <<>>
    /\ helper = [NoHelper EXCEPT !.pc = "extract"]

\* transpile_procedure: statements = extract_transpilable_sql(procedure, ...)
HelperExtract ==
    /\ helper.pc = "extract"
    /\ \E r \in CallLlm :
         helper' = [helper EXCEPT
                      !.calls = Append(@, [fn |-> "_call_llm", ok |-> r.ok,
                                           out |-> r.out, err |-> r.err]),
                      !.statements = IF r.ok THEN ExtractTranspilableSql(r.out) ELSE @,
                      !.pc = IF r.ok THEN "convert" ELSE "fail",
                      !.outcome = IF r.ok THEN @ ELSE Raised(r.err)]
    /\ UNCHANGED <<pc, sql, dialect, model, expression, kind, statements, idx,
                   converted, transpiled, outcome, calls, reqs>>

\* transpile_procedure: the generator handed to join yields
\* transpile(stmt, read=read, write=write)[0] for the next statement
HelperConvert ==
    /\ helper.pc = "convert"
    /\ helper.idx <= Len(helper.statements)
    /\ \E r \in Transpile(helper.statements[helper.idx], "tsql") :
         helper' = [helper EXCEPT
                      !.calls = Append(@, [fn |-> "transpile", ok |-> r.ok,
                                           out |-> r.out, err |-> r.err]),
                      !.converted = IF r.ok THEN Append(@, r.out) ELSE @,
                      !.idx = IF r.ok THEN @ + 1 ELSE @,
                      !.pc = IF r.ok THEN @ ELSE "fail",
                      !.outcome = IF r.ok THEN @ ELSE Raised(r.err)]
    /\ UNCHANGED <<pc, sql, dialect, model, expression, kind, statements, idx,
                   converted, transpiled, outcome, calls, reqs>>

\* transpile_procedure: the join is complete, the framed body is returned
HelperReturn ==
    /\ helper.pc = "convert"
    /\ helper.idx > Len(helper.statements)
    /\ helper' = [helper EXCEPT
                    !.pc = "done",
                    !.outcome = Returned(ProcedureBody(helper.converted))]
    /\ UNCHANGED <<pc, sql, dialect, model, expression, kind, statements, idx,
                   converted, transpiled, outcome, calls, reqs>>

HelperNext ==
    \/ HelperExtract
    \/ HelperConvert
    \/ HelperReturn

HelperSpec == HelperInit /\ [][HelperNext]_vars

-----------------------------------------------------------------------------
(* Two to_singlestore requests on one LLMWrapper (streamlit_app.py keeps a   *)
(* single wrapper).  A request is a record of the locals of its call; the    *)
(* wrapper's only attribute, model, is the variable shared by both.          *)

Requests == {1, 2}

\* answers of the assistant in the two-request runs
ConcBreakdownResponses ==
    { <<>>, <<"a", SEMI>>, <<"a", SEMI, SEMI, NL, SP, "a">> }

ConcOtherResponses == { <<>>, <<SP, "c">> }

\* the locals of a call to_singlestore(s, d) at its entry
NewRequest(s, d) ==
    [pc |-> "parse", sql |-> s, dialect |-> d, expression |-> NoExpression,
     kind |-> "None", statements |-> <<>>, idx |-> 1, converted |-> <<>>,
     transpiled |-> <<>>, outcome |-> Running, calls |-> <<>>]

\* the step at which nothing outside the request is called
NoAnswer == [ok |-> TRUE, out |-> <<>>, err |-> "None"]

\* what the collaborator called at the request's position may answer
Answers(q) ==
    CASE q.pc = "parse"     -> ParseOne(q.sql)
      [] q.pc = "classify"  -> {NoAnswer}
      [] q.pc = "decompose" -> Chat(ConcBreakdownResponses)
      [] q.pc = "convert"   ->
            IF q.idx <= Len(q.statements)
            THEN Transpile(StripTerminator(q.statements[q.idx]), q.dialect)
            ELSE Chat(ConcOtherResponses)
      [] q.pc = "transpile" -> Transpile(q.sql, q.dialect)
      [] q.pc = "validate"  -> Chat(ConcOtherResponses)
      [] OTHER              -> {}

RequestTranspileCall(q, stage, text, r) ==
    [fn |-> "transpile", stage |-> stage,
     arg |-> [text |-> text, read |-> q.dialect, write |-> "singlestore"],
     ok |-> r.ok, out |-> r.out, err |-> r.err]

\* the locals of request q after its next step of to_singlestore, the
\* collaborator called in that step answering r
RequestStep(q, r) ==
    CASE q.pc = "parse" ->
            IF r.ok
            THEN [q EXCEPT !.expression = r.expr, !.pc = "classify"]
            ELSE [q EXCEPT !.pc = "fail",
                           !.outcome = Raised("ValueError: Please provide sql.")]
      [] q.pc = "classify" ->
            LET k == QueryType(q.expression)
            IN  [q EXCEPT !.kind = k,
                          !.pc = IF k = "stored procedure" THEN "decompose"
                                 ELSE "transpile"]
      [] q.pc = "decompose" ->
            LET c == ChatCall("decompose", "You extract SQL statements.",
                              BreakdownPrompt(q.sql), r)
            IN  IF r.ok
                THEN [q EXCEPT !.calls = Append(@, c),
                               !.statements = DecomposeLines(r.out),
                               !.idx = 1, !.converted = <<>>, !.pc = "convert"]
                ELSE [q EXCEPT !.calls = Append(@, c), !.idx = 1,
                               !.converted = <<>>, !.pc = "fail",
                               !.outcome = Raised(r.err)]
      [] q.pc = "convert" /\ q.idx <= Len(q.statements) ->
            LET text == StripTerminator(q.statements[q.idx])
            IN  [q EXCEPT !.calls = Append(@, RequestTranspileCall(q, "convert", text, r)),
                          !.converted = AppendConverted(@, IF r.ok THEN r.out ELSE text),
                          !.idx = @ + 1]
      [] q.pc = "convert" /\ q.idx > Len(q.statements) ->
            LET c == ChatCall("reassemble", "You translate SQL between dialects.",
                              ReassemblePrompt(q.sql, Joined(q.converted)), r)
            IN  IF r.ok
                THEN [q EXCEPT !.calls = Append(@, c), !.pc = "done",
                               !.outcome = Returned(Strip(r.out))]
                ELSE [q EXCEPT !.calls = Append(@, c), !.pc = "fail",
                               !.outcome = Raised(r.err)]
      [] q.pc = "transpile" ->
            LET c == RequestTranspileCall(q, "transpile", q.sql, r)
            IN  IF r.ok
                THEN [q EXCEPT !.calls = Append(@, c), !.transpiled = r.out,
                               !.pc = "validate"]
                ELSE [q EXCEPT !.calls = Append(@, c), !.pc = "fail",
                               !.outcome = Raised(r.err)]
      [] q.pc = "validate" ->
            LET c == ChatCall("validate", "You translate SQL between dialects.",
                              Prompt(q.kind, q.transpiled, "None"), r)
            IN  IF r.ok
                THEN [q EXCEPT !.calls = Append(@, c), !.pc = "done",
                               !.outcome = Returned(Strip(r.out))]
                ELSE [q EXCEPT !.calls = Append(@, c), !.pc = "fail",
                               !.outcome = Raised(r.err)]
      [] OTHER -> q

ConcInit ==
    /\ MainIdle
    /\ helper = NoHelper
    /\ reqs \in [Requests -> {NewRequest(s, d) : s \in SqlTexts, d \in Dialects}]

\* variant of RequestAdvance: the list of conversion results is kept on the
\* wrapper, so every request sees the list of the request that stepped last
RequestAdvanceSharedResults(i) ==
    /\ \E r \in Answers(reqs[i]) :
         LET after == RequestStep(reqs[i], r)
         IN  reqs' = [j \in Requests |->
                        IF j = i THEN after
                        ELSE [reqs[j] EXCEPT !.converted = after.converted]]
    /\ UNCHANGED <<pc, sql, dialect, model, expression, kind, statements, idx,
                   converted, transpiled, outcome, calls, helper>>

\* request i takes its next step; the wrapper is read (self.model), never
\* written
RequestAdvance(i) ==
    /\ \E r \in Answers(reqs[i]) :
         reqs' = [reqs EXCEPT ![i] = RequestStep(reqs[i], r)]
    /\ UNCHANGED <<pc, sql, dialect, model, expression, kind, statements, idx,
                   converted, transpiled, outcome, calls, helper>>

ConcNext == \E i \in Requests : RequestAdvance(i)

ConcSpec == ConcInit /\ [][ConcNext]_vars

-----------------------------------------------------------------------------
(* Properties *)

Last(s) == s[Len(s)]

IsChat(c, stage) == c.fn = "chat" /\ c.stage = stage

IsTranspile(c, stage) == c.fn = "transpile" /\ c.stage = stage

AssistantCalls == SelectSeq(calls, LAMBDA c : c.fn = "chat")

TranspilerCalls == SelectSeq(calls, LAMBDA c : c.fn = "transpile")

Blocked == pc \in {"decompose_blocked", "reassemble_blocked", "validate_blocked"}

\* every assistant call made so far was answered, and with a response
NoAssistantFailure ==
    /\ \A i \in 1..Len(calls) : calls[i].fn = "chat" => calls[i].ok
    /\ ~Blocked

ProcedurePath == kind = "stored procedure"

SingleStatementPath == kind \in {"insert query", "DDL query", "query"}

EndsWithTerminator(s) == s # <<>> /\ Last(s) = SEMI

\* t is r without its leading and trailing whitespace
IsTrimOf(t, r) ==
    /\ t = <<>> \/ (Head(t) \notin Whitespace /\ Last(t) \notin Whitespace)
    /\ \E i \in 0..Len(r) :
         /\ i + Len(t) <= Len(r)
         /\ SubSeq(r, i + 1, i + Len(t)) = t
         /\ \A k \in 1..i : r[k] \in Whitespace
         /\ \A k \in (i + Len(t) + 1)..Len(r) : r[k] \in Whitespace

\* C1: on the stored-procedure path with no failed assistant call, the
\* collaborator calls made so far are always a prefix of: one decomposition
\* call, then one transpiler call per extracted statement in batch order, then
\* one reassembly call; and when the request has returned the sequence is
\* complete (two assistant calls, Len(statements) transpiler calls between).
C1_ProcedureStageOrder ==
    (ProcedurePath /\ NoAssistantFailure) =>
        /\ Len(calls) <= Len(statements) + 2
        /\ \A i \in 1..Len(calls) :
             IF i = 1 THEN IsChat(calls[i], "decompose")
             ELSE IF i <= Len(statements) + 1
                  THEN /\ IsTranspile(calls[i], "convert")
                       /\ calls[i].arg.text = RStripChar(statements[i - 1], SEMI)
                  ELSE IsChat(calls[i], "reassemble")
        /\ pc = "decompose" <=> Len(calls) = 0
        /\ pc = "convert" <=> Len(calls) \in 1..(Len(statements) + 1)
        /\ pc = "done" <=> Len(calls) = Len(statements) + 2
        /\ pc = "done" => /\ Len(AssistantCalls) = 2
                          /\ Len(TranspilerCalls) = Len(statements)
                          /\ outcome.status = "returned"

C1_Witness ==
    /\ pc = "done"
    /\ ProcedurePath
    /\ NoAssistantFailure
    /\ Len(statements) = 2
    /\ Len(calls) = 4

\* C2: a statement the deterministic transpiler rejects comes out of the
\* conversion as the original statement text with its terminator (the
\* extracted statement itself, the terminator added when it had none), never
\* as the empty string, and without ending the request.
C2_FallbackKeepsOriginal ==
    ProcedurePath =>
        \A i \in 1..Len(converted) :
            (IsTranspile(calls[i + 1], "convert") /\ ~calls[i + 1].ok) =>
                /\ converted[i] # <<>>
                /\ converted[i] = IF EndsWithTerminator(statements[i])
                                  THEN statements[i]
                                  ELSE statements[i] \o <<SEMI>>
                /\ outcome.status # "raised" \/ IsChat(Last(calls), "reassemble")

\* C3: the conversion results line up with the batch: result i is the outcome
\* of the transpiler call made for statement i (its output, or on failure the
\* text it was given, each with the terminator), the list is complete when
\* reassembly is called, and the reassembly request carries the results
\* joined in that order.
C3_ResultsFollowBatch ==
    ProcedurePath =>
        /\ Len(converted) = idx - 1
        /\ Len(converted) <= Len(statements)
        /\ \A i \in 1..Len(converted) :
             LET c == calls[i + 1]
             IN  /\ IsTranspile(c, "convert")
                 /\ c.arg.text = RStripChar(statements[i], SEMI)
                 /\ converted[i] = (IF c.ok THEN c.out ELSE c.arg.text) \o <<SEMI>>
        /\ (calls # <<>> /\ IsChat(Last(calls), "reassemble")) =>
               /\ Len(converted) = Len(statements)
               /\ Last(calls).arg.user.converted = Join(<<NL>>, converted)

C3_Witness ==
    /\ ProcedurePath
    /\ calls # <<>>
    /\ IsChat(Last(calls), "reassemble")
    /\ Len(statements) = 2
    /\ statements[1] # statements[2]
    /\ calls[2].ok
    /\ ~calls[3].ok

\* C4: when the sql text is empty or parse_one rejects it, the request ends
\* with ValueError("Please provide sql.") and no assistant call and no
\* transpiler call has been made.
C4_InvalidInputStopsAtParse ==
    (pc # "parse" /\ (sql = <<>> \/ expression = NoExpression)) =>
        /\ pc = "fail"
        /\ outcome = Raised("ValueError: Please provide sql.")
        /\ calls = <<>>

C4_Witness ==
    /\ pc = "fail"
    /\ sql = <<>>
    /\ outcome.status = "raised"

\* C5: when the decomposition call fails, the request fails with that call's
\* error, returns no text, and neither the transpiler nor the reassembly call
\* is made.
C5_DecomposeFailurePropagates ==
    (calls # <<>> /\ IsChat(calls[1], "decompose") /\ ~calls[1].ok) =>
        /\ pc = "fail"
        /\ outcome = Raised(calls[1].err)
        /\ Len(calls) = 1

C5_Witness ==
    /\ calls # <<>>
    /\ IsChat(calls[1], "decompose")
    /\ ~calls[1].ok
    /\ pc = "fail"

\* C6: when the reassembly call fails, the request fails with that call's
\* error and returns no text, whatever the conversion results are.
C6_ReassembleFailurePropagates ==
    (calls # <<>> /\ IsChat(Last(calls), "reassemble") /\ ~Last(calls).ok) =>
        /\ pc = "fail"
        /\ outcome = Raised(Last(calls).err)

C6_Witness ==
    /\ calls # <<>>
    /\ IsChat(Last(calls), "reassemble")
    /\ ~Last(calls).ok
    /\ Len(statements) = 2
    /\ \A i \in 2..(Len(calls) - 1) : calls[i].ok
    /\ pc = "fail"

\* kind k is the word PROCEDURE in any mix of upper and lower case
IsProcedureWord(k) ==
    /\ Len(k) = Len(PROCEDURE)
    /\ \A i \in 1..Len(k) :
         \E j \in 1..Len(UpperLetters) :
            /\ UpperLetters[j] = PROCEDURE[i]
            /\ k[i] \in {UpperLetters[j], LowerLetters[j]}

\* C7: every parsed expression gets exactly one of the four classes, by first
\* match: Create with kind PROCEDURE in any case is "stored procedure"; else
\* Insert is "insert query"; else any other DDL node (a Create of another or
\* no kind included) is "DDL query"; else "query".
C7_ClassifierPriority ==
    (pc \notin {"parse", "classify"} /\ expression # NoExpression) =>
        /\ kind \in {"stored procedure", "insert query", "DDL query", "query"}
        /\ kind = IF /\ expression.cls = "Create"
                     /\ expression.hasKind
                     /\ IsProcedureWord(expression.kind)
                  THEN "stored procedure"
                  ELSE IF expression.cls = "Insert" THEN "insert query"
                  ELSE IF "DDL" \in ClassBases(expression.cls) THEN "DDL query"
                  ELSE "query"

C7_Witness ==
    /\ pc = "transpile"
    /\ expression.cls = "Insert"
    /\ "DDL" \in ClassBases(expression.cls)
    /\ kind = "insert query"

\* C8 as stated: on the single-statement path the double-check request
\* carries the transpiler's output and the text returned is the assistant's
\* response, character for character.
C8_ReturnsResponseVerbatim ==
    (pc = "done" /\ SingleStatementPath) =>
        /\ Last(calls).arg.user.sql = calls[1].out
        /\ outcome.text = Last(calls).out

\* C8 amended: on the single-statement path the double-check request carries
\* the transpiler's output (not the sql argument) and the text returned is
\* the assistant's response with its leading and trailing whitespace removed.
C8_ReturnsTrimmedResponse ==
    (pc = "done" /\ SingleStatementPath) =>
        /\ IsTranspile(calls[1], "transpile")
        /\ IsChat(Last(calls), "validate")
        /\ Last(calls).arg.user =
               [template |-> "Double check", kind |-> kind, sql |-> calls[1].out]
        /\ outcome.status = "returned"
        /\ IsTrimOf(outcome.text, Last(calls).out)

C8_Witness ==
    /\ pc = "done"
    /\ SingleStatementPath
    /\ calls[1].out # sql
    /\ outcome.text # calls[1].out
    /\ outcome.text # <<>>
    /\ outcome.text # Last(calls).out

\* C9 as stated: a single-statement request whose parse, transpile and
\* assistant call all succeed has called the transpiler once, then the
\* assistant once, and returns non-empty text.
C9_ReturnsNonEmpty ==
    (pc = "done" /\ SingleStatementPath) =>
        /\ Len(calls) = 2
        /\ IsTranspile(calls[1], "transpile")
        /\ IsChat(calls[2], "validate")
        /\ outcome.status = "returned"
        /\ outcome.text # <<>>

\* C9 amended: such a request has called the transpiler once, then the
\* assistant once, and returns text that is non-empty exactly when the
\* assistant's response holds a character that is not whitespace.
C9_ReturnsNonEmptyUnlessBlank ==
    (pc = "done" /\ SingleStatementPath) =>
        /\ Len(calls) = 2
        /\ IsTranspile(calls[1], "transpile")
        /\ calls[1].ok
        /\ IsChat(calls[2], "validate")
        /\ calls[2].ok
        /\ outcome.status = "returned"
        /\ outcome.text # <<>> <=>
               \E k \in 1..Len(calls[2].out) : calls[2].out[k] \notin Whitespace

C9_Witness ==
    /\ pc = "done"
    /\ SingleStatementPath
    /\ Len(calls) = 2
    /\ outcome.text # <<>>

\* C10: on the single-statement path a transpiler failure ends the request
\* with the transpiler's error and no assistant call is made.
C10_TranspileFailurePropagates ==
    (calls # <<>> /\ IsTranspile(calls[1], "transpile") /\ ~calls[1].ok) =>
        /\ pc = "fail"
        /\ outcome = Raised(calls[1].err)
        /\ Len(calls) = 1

C10_Witness ==
    /\ calls # <<>>
    /\ IsTranspile(calls[1], "transpile")
    /\ ~calls[1].ok
    /\ pc = "fail"

\* number of assistant calls made by a stage
StageCalls(stage) == Len(SelectSeq(calls, LAMBDA c : IsChat(c, stage)))

\* C11: no stage calls the assistant more than once, a failed assistant call
\* is the last collaborator call of the request and the request has failed
\* with its error, and the transpiler is called once for each statement the
\* loop has passed (once at most on the single-statement path), so a failed
\* transpile is not made again.
C11_NoRetry ==
    /\ \A stage \in {"decompose", "reassemble", "validate"} : StageCalls(stage) <= 1
    /\ \A i \in 1..Len(calls) :
         (calls[i].fn = "chat" /\ ~calls[i].ok) =>
             /\ i = Len(calls)
             /\ pc = "fail"
             /\ outcome = Raised(calls[i].err)
    /\ ProcedurePath =>
         /\ Len(TranspilerCalls) = idx - 1
         /\ idx - 1 <= Len(statements)
    /\ ~ProcedurePath => Len(TranspilerCalls) <= 1

C11_Witness ==
    /\ ProcedurePath
    /\ Len(statements) = 2
    /\ Len(calls) = 4
    /\ ~calls[2].ok
    /\ calls[3].ok
    /\ ~calls[4].ok
    /\ pc = "fail"

\* number of terminators at the end of s
RECURSIVE TrailingTerminators(_)
TrailingTerminators(s) ==
    IF EndsWithTerminator(s)
    THEN 1 + TrailingTerminators(SubSeq(s, 1, Len(s) - 1))
    ELSE 0

\* C14: the text given to the transpiler for an extracted statement is the
\* statement without its last terminator: one terminator fewer at the end
\* when the statement ends in any, the statement itself when it ends in none.
C14_StripsOneTerminator ==
    ProcedurePath =>
        \A i \in 1..Len(converted) :
            LET stmt == statements[i]
                text == calls[i + 1].arg.text
            IN  IF EndsWithTerminator(stmt)
                THEN /\ text = SubSeq(stmt, 1, Len(stmt) - 1)
                     /\ TrailingTerminators(text) = TrailingTerminators(stmt) - 1
                ELSE text = stmt

\* C15: every conversion result ends with the terminator: it is the
\* transpiler's output followed by ";" when the call succeeded and the text
\* given to the transpiler followed by ";" when it failed.
C15_TerminatorReappended ==
    ProcedurePath =>
        \A i \in 1..Len(converted) :
            LET c    == calls[i + 1]
                body == SubSeq(converted[i], 1, Len(converted[i]) - 1)
            IN  /\ EndsWithTerminator(converted[i])
                /\ c.ok => body = c.out
                /\ ~c.ok => body = c.arg.text

C15_Witness ==
    /\ ProcedurePath
    /\ Len(converted) = 2
    /\ statements[1] = <<"a">>
    /\ ~calls[2].ok
    /\ converted[1] = <<"a", SEMI>>
    /\ calls[3].ok
    /\ calls[3].out = <<>>
    /\ converted[2] = <<SEMI>>

\* the extracted statement with its terminator, added when it has none
WithTerminator(stmt) == IF EndsWithTerminator(stmt) THEN stmt ELSE stmt \o <<SEMI>>

\* C16: the reassembly request carries the original procedure text and the
\* conversion results joined in batch order, where the result of a statement
\* is the transpiler's output with the terminator, or, when the transpiler
\* failed, the extracted statement unchanged.
C16_RequestCarriesResults ==
    (calls # <<>> /\ IsChat(Last(calls), "reassemble")) =>
        LET request == Last(calls).arg.user
            results == [i \in 1..Len(statements) |->
                          IF calls[i + 1].ok THEN calls[i + 1].out \o <<SEMI>>
                          ELSE WithTerminator(statements[i])]
        IN  /\ request.template = "REASSEMBLE_PROMPT"
            /\ request.procedure = sql
            /\ request.converted = Join(<<NL>>, results)

\* the lines of a response that hold a character other than whitespace
NonBlank(lines) ==
    {i \in 1..Len(lines) : \E k \in 1..Len(lines[i]) : lines[i][k] \notin Whitespace}

\* C17: decomposition makes one assistant call, and the batch it returns is
\* the response's lines that are not blank, in order, each without its
\* leading and trailing whitespace; no element is empty or starts or ends
\* with whitespace and no other line is left out.
C17_DecomposeTrimsAndKeepsOrder ==
    (calls # <<>> /\ IsChat(calls[1], "decompose") /\ calls[1].ok) =>
        LET lines == SplitLines(calls[1].out)
            kept  == NonBlank(lines)
        IN  /\ StageCalls("decompose") = 1
            /\ calls[1].out \in {Join(<<NL>>, lines), Join(<<NL>>, lines) \o <<NL>>}
            /\ \A i \in 1..Len(lines) : \A k \in 1..Len(lines[i]) : lines[i][k] # NL
            /\ Len(statements) = Cardinality(kept)
            /\ \A j \in 1..Len(statements) :
                 LET i == CHOOSE n \in kept : Cardinality({m \in kept : m <= n}) = j
                 IN  /\ statements[j] # <<>>
                     /\ IsTrimOf(statements[j], lines[i])

C17_Witness ==
    /\ calls # <<>>
    /\ IsChat(calls[1], "decompose")
    /\ calls[1].ok
    /\ calls[1].out = <<SP, NL, SP, "a", SEMI, SP>>
    /\ statements = << <<"a", SEMI>> >>

\* C19: when decomposition gives an empty batch the transpiler is not called,
\* the reassembly call is made once with an empty converted-statements text,
\* the request fails only if that call fails, and otherwise it returns the
\* reassembly response without its surrounding whitespace.
C19_EmptyBatchStillReassembles ==
    (ProcedurePath /\ calls # <<>> /\ calls[1].ok /\ statements = <<>>) =>
        /\ TranspilerCalls = <<>>
        /\ Len(calls) <= 2
        /\ pc \in {"done", "fail"} => Len(calls) = 2
        /\ Len(calls) = 2 =>
             /\ IsChat(calls[2], "reassemble")
             /\ calls[2].arg.user.converted = <<>>
             /\ calls[2].arg.user.procedure = sql
             /\ calls[2].ok => /\ pc = "done"
                               /\ outcome.status = "returned"
                               /\ IsTrimOf(outcome.text, calls[2].out)
             /\ ~calls[2].ok => pc = "fail"

C19_Witness ==
    /\ ProcedurePath
    /\ Len(calls) = 2
    /\ calls[1].ok
    /\ statements = <<>>
    /\ calls[2].ok
    /\ calls[2].out = <<SP, "c">>
    /\ pc = "done"
    /\ outcome = Returned(<<"c">>)

\* C12: a request never stays blocked in a stage: in every state it has
\* ended in done or fail, or it can still take a step (an assistant call that
\* is not answered ends as a failed call).
C12_NeverBlocked == pc \in {"done", "fail"} \/ ENABLED Next

\* C18: in transpile_procedure a statement the transpiler rejects does not
\* end the call: the call has not raised, and when it has returned every
\* statement has its place in the result, the rejected ones with their
\* original text.
C18_HelperKeepsGoing ==
    (\E i \in 1..Len(helper.calls) :
        helper.calls[i].fn = "transpile" /\ ~helper.calls[i].ok) =>
        /\ helper.outcome.status # "raised"
        /\ helper.pc # "fail"
        /\ helper.pc = "done" =>
             /\ Len(helper.converted) = Len(helper.statements)
             /\ \A j \in 1..Len(helper.statements) :
                  helper.converted[j] = IF helper.calls[j + 1].ok
                                        THEN helper.calls[j + 1].out
                                        ELSE helper.statements[j]

\* the answers request q has received so far, in order: of parse_one, of the
\* classification step, and of each collaborator call in its history
AnswersReceived(q) ==
    (IF q.pc = "parse" THEN <<>>
     ELSE IF q.expression = NoExpression
          THEN <<[ok |-> FALSE, expr |-> NoExpression, err |-> "ParseError"]>>
          ELSE <<[ok |-> TRUE, expr |-> q.expression, err |-> "None"]>>)
    \o (IF q.kind = "None" THEN <<>> ELSE <<NoAnswer>>)
    \o [n \in 1..Len(q.calls) |->
          [ok |-> q.calls[n].ok, out |-> q.calls[n].out, err |-> q.calls[n].err]]

\* the request run by itself from its entry, the collaborators answering as
\* listed
RECURSIVE RunAlone(_, _)
RunAlone(q, answers) ==
    IF answers = <<>> THEN q
    ELSE RunAlone(RequestStep(q, Head(answers)), Tail(answers))

\* C13: with two requests interleaved on one wrapper, each request's locals,
\* result and collaborator calls are those of the same request run alone
\* with the same answers, and the wrapper's model keeps its value.
C13_RequestsIndependent ==
    /\ model = DefaultModel
    /\ \A i \in Requests :
         reqs[i] = RunAlone(NewRequest(reqs[i].sql, reqs[i].dialect),
                            AnswersReceived(reqs[i]))

C13_Witness ==
    /\ reqs[1].pc = "done"
    /\ reqs[2].pc = "done"
    /\ reqs[1].kind = "stored procedure"
    /\ reqs[2].kind = "stored procedure"
    /\ Len(reqs[1].statements) = 2
    /\ Len(reqs[2].statements) = 1
    /\ reqs[1].converted # reqs[2].converted
    /\ reqs[1].dialect # reqs[2].dialect

\* the single request of Spec, as a record of its locals
MainRequest ==
    [pc |-> pc, sql |-> sql, dialect |-> dialect, expression |-> expression,
     kind |-> kind, statements |-> statements, idx |-> idx,
     converted |-> converted, transpiled |-> transpiled, outcome |-> outcome,
     calls |-> calls]

\* the step function of the two-request runs agrees with the actions of the
\* single request: a state of the single request is the result of RunAlone
\* on its answers (an unanswered call aside)
RunAloneAgreesWithActions ==
    ~Blocked => MainRequest = RunAlone(NewRequest(sql, dialect),
                                       AnswersReceived(MainRequest))

====
